---- MODULE Spec2Model ----
(***************************************************************************)
(* RedditReady: RedditResearchAgent.run_research and the objects it uses   *)
(* (Config, RedditAPI, ResponseAnalysisAgent, DataCollectionAgent), in the *)
(* OpenAI variant (redditresearchagent.py) and the Gemini variant          *)
(* (redditresearchagent_gemini.py).                                        *)
(*                                                                         *)
(* Spec        one call of run_research from a freshly constructed agent.  *)
(* SpecMonitor the monitoring section of run_research (the while loop and  *)
(*             the save that follows it), started at the loop head.        *)
(* SpecWorthy  should_reply applied to scores drawn from a bounded range.  *)
(* SpecRecord  DataCollectionAgent on its own: update_post and             *)
(*             save_research called with both parameters bound.            *)
(***************************************************************************)
EXTENDS Integers, Sequences, FiniteSets, TLC

VARIABLES
    variant,            \* which file runs: "openai" or "gemini"
    pc,                 \* position of run_research
    now,                \* time.time(), in seconds
    last_api_call,      \* RedditAPI.last_api_call
    research_id,        \* the research_id local of run_research
    subreddit,          \* the subreddit local: None or a handle
    style_template,     \* the style_template local
    post_content,       \* the post_content local
    data,               \* DataCollectionAgent.data[research_id], or NoData
    post,               \* the praw submission object held in the post local
    start_time,         \* the start_time local
    generated_replies,  \* the generated_replies local (a set of ids)
    files,              \* what has been written to disk, in order
    result,             \* what run_research returned
    calls,              \* history: the platform calls made before the loop, in order
    submitted,          \* history: the title and selftext given to submit
    todo,               \* the comments the for loop has still to visit
    mon,                \* history of the monitoring loop
    worthy,             \* SpecWorthy: the scores tried and should_reply's answer
    llm                 \* history: the LLM calls made, in order

vars == << variant, pc, now, last_api_call, research_id, subreddit,
           style_template, post_content, data, post, start_time,
           generated_replies, files, result, calls, submitted, todo, mon,
           worthy, llm >>

(***************************************************************************)
(* Config                                                                  *)
(***************************************************************************)
monitoring_duration == 21600
check_interval == 3600
max_replies_per_thread == 4
\* upvote_ratio_threshold = 0.05, kept as the fraction 1/20: score > p * 0.05
\* is decided in twentieths (see GreaterThanRatio)
upvote_ratio_num == 1
upvote_ratio_den == 20
rate_limit_delay == 120
min_upvotes == 5

(***************************************************************************)
(* Bounds of the model                                                     *)
(***************************************************************************)
MaxText == 3        \* longest text an LLM call returns, in characters
MaxComments == 2    \* most comments the platform lists for the post in a pass
MaxScore == 12      \* largest comment score tried in SpecWorthy

(***************************************************************************)
(* Values                                                                  *)
(***************************************************************************)
None == "None"
EmptyDict == [k \in {} |-> None]
NoData == EmptyDict         \* DataCollectionAgent.data holds no entry yet
NoPost == EmptyDict         \* the post local is not bound yet
NoneId == << >>             \* None where a research id is expected
Unset == << "unset" >>      \* run_research has not returned
Variants == {"openai", "gemini"}
Chars == {"T", "\n"}
Texts == UNION {[1..n -> Chars] : n \in 0..MaxText}
\* time.time() when run_research is called: seconds since the epoch, far
\* beyond rate_limit_delay
StartTimes == {100000}
\* how long an external call (platform or LLM) can take, in seconds
CallDurations == {0, 60, 1800}
\* how long post.refresh() can take in a polling pass
RefreshDurations == {0, 1800}
\* what the platform can show at a refresh: the post's score, and the
\* comments under it (ids 1..MaxComments, each with a score)
\* the 'removed' attribute of the refreshed post: not there, or its value
RemovedAttrs == {"absent", "false", "true"}
PostScores == {100, 120}
CommentScores == {5, 6}
Comments == [id : 1..MaxComments, score : CommentScores]
CommentLists ==
    {cs \in UNION {[1..n -> Comments] : n \in 0..MaxComments} :
        \A i, j \in 1..Len(cs) : i # j => cs[i].id # cs[j].id}
research_prompt == "prompt"
subreddit_name == "smartphones"

(***************************************************************************)
(* Text: post_content.split('\n') and '\n'.join(...)                       *)
(***************************************************************************)
RECURSIVE FirstBreak(_, _)
\* index of the first line break of t at or after i, 0 when there is none
FirstBreak(t, i) ==
    IF i > Len(t) THEN 0
    ELSE IF t[i] = "\n" THEN i
    ELSE FirstBreak(t, i + 1)

RECURSIVE split(_)
\* str.split('\n'): the pieces between line breaks, at least one piece
split(t) ==
    LET b == FirstBreak(t, 1)
    IN  IF b = 0 THEN << t >>
        ELSE << SubSeq(t, 1, b - 1) >> \o split(SubSeq(t, b + 1, Len(t)))

RECURSIVE join(_)
\* '\n'.join(lines)
join(lines) ==
    IF Len(lines) = 0 THEN << >>
    ELSE IF Len(lines) = 1 THEN lines[1]
    ELSE lines[1] \o << "\n" >> \o join(Tail(lines))

title_of(content) == split(content)[1]
\* mutant: the body keeps the first line ([0:] for [1:])
selftext_of_AllLines(content) == join(split(content))

selftext_of(content) == join(Tail(split(content)))

(***************************************************************************)
(* RedditAPI                                                               *)
(***************************************************************************)
\* _respect_rate_limit: the time at which the caller goes on
respect_rate_limit(t, last) ==
    IF t - last < rate_limit_delay THEN t + (rate_limit_delay - (t - last))
    ELSE t

\* a call of op on the platform at time t; limited: _respect_rate_limit ran
\* just before it
PlatformCall(op, t, limited) == [op |-> op, at |-> t, limited |-> limited]

(***************************************************************************)
(* The LLM: LLMChain.run (OpenAI variant), GeminiWrapper.generate_text     *)
(***************************************************************************)
\* one call of the LLM for use u (style, post or reply), and whether it
\* returned text
LLMCall(u, o) == [use |-> u, ok |-> o.ok]

LLMOutcomes ==
    {[ok |-> TRUE, text |-> t] : t \in Texts} \cup {[ok |-> FALSE, text |-> << >>]}

\* what the caller of the LLM gets: the Gemini wrapper catches a failure and
\* returns "", the OpenAI chain lets it propagate
generate_text(v, o) ==
    [raised |-> (v = "openai" /\ ~o.ok),
     text   |-> IF o.ok THEN o.text ELSE << >>]

(***************************************************************************)
(* ResponseAnalysisAgent.should_reply                                      *)
(***************************************************************************)
\* score > post_score * 0.05, decided in twentieths
GreaterThanRatio(score, post_score) ==
    score * upvote_ratio_den > post_score * upvote_ratio_num

\* mutant: the ratio test admits the boundary (>= for >)
should_reply_Boundary(score, post_score) ==
    score > min_upvotes
    /\ score * upvote_ratio_den >= post_score * upvote_ratio_num

should_reply(score, post_score) ==
    score > min_upvotes /\ GreaterThanRatio(score, post_score)

(***************************************************************************)
(* DataCollectionAgent                                                     *)
(* A method is modelled on the tuple of positional arguments it is called  *)
(* with (self left out): a call that does not bind every parameter raises  *)
(* TypeError and changes nothing.                                          *)
(***************************************************************************)
initialize_research(rid, prompt, sub, style) ==
    [research_id     |-> rid,
     original_prompt |-> prompt,
     subreddit       |-> sub,
     style_template  |-> style,
     post            |-> EmptyDict,
     replies         |-> << >>]

\* def update_post(self, research_id, post_data)
update_post(d, args) ==
    IF Len(args) # 2 THEN [raised |-> TRUE, data |-> d]
    ELSE [raised |-> FALSE, data |-> [d EXCEPT !.post = args[2]]]

\* def add_reply(self, research_id, reply_data)
add_reply(d, args) ==
    IF Len(args) # 2 THEN [raised |-> TRUE, data |-> d]
    ELSE [raised |-> FALSE, data |-> [d EXCEPT !.replies = Append(@, args[2])]]

\* lines 278-283: the dictionary run_research builds after the submit
ActiveSnapshot(id, content, t) ==
    [id |-> id, content |-> content, timestamp |-> t, status |-> "active"]

\* lines 299-302: the dictionary run_research builds in the removal branch
RemovalUpdate(t) == [status |-> "removed", timestamp |-> t]

\* ResearchData.to_json: the serialised record
to_json(d) == << "json", d >>

\* def save_research(self, research_id, filepath)
save_research(fs, d, filepath) == Append(fs, [path |-> filepath, content |-> to_json(d)])

research_file(rid) == << "research_data_", rid, ".json" >>

(***************************************************************************)
(* run_research up to the monitoring loop                                  *)
(***************************************************************************)
NoHistory ==
    [passes  |-> 0,        \* polling passes begun (calls of post.refresh)
     exc     |-> "none",   \* the statement whose exception the pass is handling
     caught  |-> 0,        \* exceptions caught by the handler of line 348
     removal |-> FALSE,    \* some refresh has loaded removed = true
     shown   |-> FALSE,    \* this pass has taken the removal branch (line 298)
     replies |-> << >>,    \* the successful comment.reply calls
     met     |-> 0,        \* worthy comments that reached line 314
     due     |-> 0,        \* of these, those line 324 lets a reply be posted to
     attempts |-> 0,       \* calls of comment.reply
     exit    |-> "none"]   \* why the loop ended

InitCommon ==
    /\ variant \in Variants
    /\ now \in StartTimes
    /\ last_api_call = 0
    /\ style_template = << >>
    /\ post_content = << >>
    /\ files = << >>
    /\ result = Unset
    /\ calls = << >>
    /\ submitted = << >>
    /\ todo = << >>
    /\ mon = NoHistory
    /\ worthy = << >>
    /\ llm = << >>

\* the agent after __init__, run_research called with or without a research_id
Init ==
    /\ InitCommon
    /\ pc = "start"
    /\ subreddit = None
    /\ research_id \in {NoneId, << "r1" >>}
    /\ data = NoData
    /\ post = NoPost
    /\ start_time = 0
    /\ generated_replies = {}

\* mutant: the check of line 255 is missing
AfterGetSubreddit_NoCheck(sub) == "analyze"

\* lines 255-257: where run_research goes with what get_subreddit returned
AfterGetSubreddit(sub) == IF sub = None THEN "done" ELSE "analyze"

\* lines 250-257: default research id, get_subreddit, return None without it
GetSubreddit ==
    /\ pc = "start"
    /\ \E ok \in BOOLEAN, d \in CallDurations :
        LET rid  == IF research_id = NoneId THEN << "research_", now >>
                    ELSE research_id
            t    == respect_rate_limit(now, last_api_call)
            sub  == IF ok THEN subreddit_name ELSE None
            next == AfterGetSubreddit(sub)
        IN  /\ research_id' = rid
            /\ last_api_call' = t
            /\ calls' = Append(calls, PlatformCall("subreddit", t, TRUE))
            /\ now' = t + d
            /\ subreddit' = sub
            /\ pc' = next
            /\ result' = IF next = "done" THEN NoneId ELSE result
    /\ UNCHANGED << variant, style_template, post_content, data, post,
                    start_time, generated_replies, files, submitted, todo,
                    mon, worthy, llm >>

\* line 260, analyze_subreddit: list the hot posts, ask the LLM for the style;
\* v is the variant whose code runs
AnalyzeSubredditAs(v) ==
    /\ pc = "analyze"
    /\ \E hot_ok \in BOOLEAN, o \in LLMOutcomes, d \in CallDurations :
        LET g == generate_text(v, o)
        IN  /\ calls' = IF subreddit = None THEN calls
                         ELSE Append(calls, PlatformCall("hot", now, FALSE))
            /\ now' = now + d
            /\ llm' = IF subreddit = None \/ ~hot_ok THEN llm
                       ELSE Append(llm, LLMCall("style", o))
            /\ IF subreddit = None \/ ~hot_ok \/ g.raised
               THEN pc' = "raised" /\ UNCHANGED style_template
               ELSE pc' = "generate" /\ style_template' = g.text
    /\ UNCHANGED << variant, last_api_call, research_id, subreddit,
                    post_content, data, post, start_time, generated_replies,
                    files, result, submitted, todo, mon, worthy >>

AnalyzeSubreddit == AnalyzeSubredditAs(variant)

\* line 261, generate_post; v is the variant whose code runs
GeneratePostAs(v) ==
    /\ pc = "generate"
    /\ \E o \in LLMOutcomes :
        LET g == generate_text(v, o)
        IN  /\ llm' = Append(llm, LLMCall("post", o))
            /\ IF g.raised
               THEN pc' = "raised" /\ UNCHANGED post_content
               ELSE pc' = "init" /\ post_content' = g.text
    /\ UNCHANGED << variant, now, last_api_call, research_id, subreddit,
                    style_template, data, post, start_time,
                    generated_replies, files, result, calls, submitted, todo,
                    mon, worthy >>

GeneratePost == GeneratePostAs(variant)

\* lines 264-269
InitializeResearch ==
    /\ pc = "init"
    /\ data' = initialize_research(research_id, research_prompt,
                                   subreddit_name, style_template)
    /\ pc' = "submit"
    /\ UNCHANGED << variant, now, last_api_call, research_id, subreddit,
                    style_template, post_content, post, start_time,
                    generated_replies, files, result, calls, submitted, todo,
                    mon, worthy, llm >>

\* mutant: the handler of line 284 prints the error and does not return
AfterSubmit_NoReturn(raised) == "loop"

\* lines 284-286 against line 289: where the try block of the submission
\* leaves run_research
AfterSubmit(raised) == IF raised THEN "done" ELSE "loop"

\* the submission object: its id, and what the last refresh loaded (its
\* score, its 'removed' attribute)
NewPost(id) == [id |-> id, score |-> 1, removed |-> "absent"]

\* lines 272-290: submit, record the post snapshot; on any exception return
\* None, otherwise set up the monitoring loop
SubmitPost ==
    /\ pc = "submit"
    /\ \E ok \in BOOLEAN, d \in CallDurations :
        LET t    == now + d
            up   == update_post(data,
                        << ActiveSnapshot("p1", post_content, t) >>)
            next == AfterSubmit(~ok \/ up.raised)
        IN  /\ calls' = Append(calls, PlatformCall("submit", now, FALSE))
            /\ submitted' = Append(submitted,
                                [title    |-> title_of(post_content),
                                 selftext |-> selftext_of(post_content),
                                 ok       |-> ok])
            /\ now' = t
            /\ post' = IF ok THEN NewPost("p1") ELSE post
            /\ data' = IF ok THEN up.data ELSE data
            /\ pc' = next
            /\ result' = IF next = "done" THEN NoneId ELSE result
            /\ start_time' = IF next = "loop" THEN t ELSE start_time
            /\ generated_replies' = IF next = "loop" THEN {} ELSE generated_replies
    /\ UNCHANGED << variant, last_api_call, research_id, subreddit,
                    style_template, post_content, files, todo, mon, worthy, llm >>

Next ==
    \/ GetSubreddit
    \/ AnalyzeSubreddit
    \/ GeneratePost
    \/ InitializeResearch
    \/ SubmitPost

Spec == Init /\ [][Next]_vars

\* a step of run_research as variant v takes it, whatever the agent's own
\* variant: only the LLM calls depend on the variant
NextAs(v) ==
    \/ GetSubreddit
    \/ AnalyzeSubredditAs(v)
    \/ GeneratePostAs(v)
    \/ InitializeResearch
    \/ SubmitPost

(***************************************************************************)
(* The monitoring loop of run_research, lines 292-350, and the save        *)
(***************************************************************************)
\* mutant: the while condition admits the boundary (<= for <)
keep_monitoring_Inclusive(t, start) == t - start <= monitoring_duration

\* line 292: the while condition
keep_monitoring(t, start) == t - start < monitoring_duration

LoopTest ==
    /\ pc = "loop"
    /\ IF keep_monitoring(now, start_time)
       THEN pc' = "refresh" /\ mon' = [mon EXCEPT !.shown = FALSE]
       ELSE pc' = "save" /\ mon' = [mon EXCEPT !.exit = "expired", !.shown = FALSE]
    /\ UNCHANGED << variant, now, last_api_call, research_id, subreddit,
                    style_template, post_content, data, post, start_time,
                    generated_replies, files, result, calls, submitted, todo,
                    worthy, llm >>

\* lines 299-303: after update_post in the removal branch comes the break,
\* unless update_post raised, which the handler of line 348 catches
AfterRemoval(raised) == IF raised THEN "except" ELSE "save"

\* line 297: hasattr(post, 'removed')
has_removed(attr) == attr # "absent"

\* lines 294-303: refresh the post; if it has a 'removed' attribute, record
\* the removal and leave the loop
Refresh ==
    /\ pc = "refresh"
    /\ \E ok \in BOOLEAN, attr \in RemovedAttrs, score \in PostScores,
          d \in RefreshDurations :
        LET t    == now + d
            removed == has_removed(attr)
            up   == update_post(data, << RemovalUpdate(t) >>)
            next == IF ~ok THEN "except"
                    ELSE IF removed THEN AfterRemoval(up.raised)
                    ELSE "expand"
        IN  /\ now' = t
            /\ post' = IF ok THEN [post EXCEPT !.score = score, !.removed = attr]
                       ELSE post
            /\ data' = IF ok /\ removed THEN up.data ELSE data
            /\ pc' = next
            /\ mon' = [mon EXCEPT
                         !.passes  = @ + 1,
                         !.shown   = ok /\ removed,
                         !.removal = @ \/ (ok /\ attr = "true"),
                         !.exc     = IF ~ok THEN "refresh"
                                     ELSE IF removed /\ up.raised THEN "update_post"
                                     ELSE "none",
                         !.caught  = IF next = "except" THEN @ + 1 ELSE @,
                         !.exit    = IF next = "save" THEN "removed" ELSE @]
    /\ UNCHANGED << variant, last_api_call, research_id, subreddit,
                    style_template, post_content, start_time,
                    generated_replies, files, result, calls, submitted, todo,
                    worthy, llm >>

\* lines 306-307: replace_more, then the list the for loop iterates
ExpandComments ==
    /\ pc = "expand"
    /\ \E ok \in BOOLEAN, cs \in CommentLists :
        IF ok
        THEN /\ todo' = cs
             /\ pc' = "comments"
             /\ UNCHANGED mon
        ELSE /\ pc' = "except"
             /\ mon' = [mon EXCEPT !.exc = "replace_more", !.caught = @ + 1]
             /\ UNCHANGED todo
    /\ UNCHANGED << variant, now, last_api_call, research_id, subreddit,
                    style_template, post_content, data, post, start_time,
                    generated_replies, files, result, calls, submitted,
                    worthy, llm >>

\* what one iteration of the for loop can meet outside the program
\* (the LLM drafts an empty reply, a one-character reply, or fails)
ReplyDrafts == {o \in LLMOutcomes : Len(o.text) <= 1 /\ "\n" \notin {o.text[i] : i \in 1..Len(o.text)}}
CommentEnvs ==
    [sentiment_ok : BOOLEAN, llm : ReplyDrafts, reply_ok : BOOLEAN]

HumanSnapshot(c) ==
    [id |-> c.id, content |-> << "body", c.id >>, upvotes |-> c.score,
     sentiment |-> "sentiment", timestamp |-> "created_utc",
     is_bot_generated |-> FALSE]

BotSnapshot(id, text, t) ==
    [id |-> id, content |-> text, upvotes |-> 0, sentiment |-> "sentiment",
     timestamp |-> t, is_bot_generated |-> TRUE]

\* line 324
below_cap(gr) == Cardinality(gr) < max_replies_per_thread

\* lines 308-343, one iteration of the for loop on comment c: d the research
\* record, gr generated_replies, fresh the id the platform gives a new reply.
\* raised names the statement whose exception leaves the for loop.
process_comment(c, d, gr, post_score, v, fresh, t, env) ==
    LET same == [raised |-> "none", data |-> d, generated_replies |-> gr,
                 replied |-> << >>, attempted |-> FALSE, drafted |-> << >>]
    IN
    IF c.id \in gr \/ ~should_reply(c.score, post_score) THEN same
    ELSE IF ~env.sentiment_ok THEN [same EXCEPT !.raised = "analyze_sentiment"]
    ELSE
      LET a1 == add_reply(d, << HumanSnapshot(c) >>)
      IN
      IF a1.raised THEN [same EXCEPT !.raised = "add_reply"]
      ELSE IF ~below_cap(gr) THEN [same EXCEPT !.data = a1.data]
      ELSE
        LET g == generate_text(v, env.llm)
        IN
        IF g.raised
        THEN [same EXCEPT !.raised = "generate_reply", !.data = a1.data,
                          !.drafted = << LLMCall("reply", env.llm) >>]
        ELSE IF ~env.reply_ok
        THEN [same EXCEPT !.data = a1.data, !.attempted = TRUE,
                          !.drafted = << LLMCall("reply", env.llm) >>]
        ELSE
          LET a2 == add_reply(a1.data, << BotSnapshot(fresh, g.text, t) >>)
          IN  [raised            |-> "none",
               data              |-> a2.data,
               generated_replies |-> gr \cup {fresh},
               replied           |-> << [comment |-> c.id, reply |-> fresh] >>,
               attempted         |-> TRUE,
               drafted           |-> << LLMCall("reply", env.llm) >>]

\* lines 307-343: the next comment of the for loop
ProcessComment ==
    /\ pc = "comments"
    /\ todo # << >>
    /\ \E env \in CommentEnvs :
        LET fresh == MaxComments + Len(mon.replies) + 1
            c == Head(todo)
            r == process_comment(c, data, generated_replies,
                                 post.score, variant, fresh, now, env)
            \* c reached line 314: not replied to, worthy, sentiment computed
            met == /\ c.id \notin generated_replies
                   /\ should_reply(c.score, post.score)
                   /\ env.sentiment_ok
            \* and line 324 leaves room for a reply whose text the LLM drafts
            due == /\ met
                   /\ below_cap(generated_replies)
                   /\ ~generate_text(variant, env.llm).raised
        IN  /\ data' = r.data
            /\ generated_replies' = r.generated_replies
            /\ llm' = llm \o r.drafted
            /\ mon' = [mon EXCEPT
                         !.replies = @ \o r.replied,
                         !.met     = IF met THEN @ + 1 ELSE @,
                         !.due     = IF due THEN @ + 1 ELSE @,
                         !.attempts = IF r.attempted THEN @ + 1 ELSE @,
                         !.exc     = r.raised,
                         !.caught  = IF r.raised # "none" THEN @ + 1 ELSE @]
            /\ IF r.raised # "none"
               THEN pc' = "except" /\ todo' = << >>
               ELSE pc' = pc /\ todo' = Tail(todo)
    /\ UNCHANGED << variant, now, last_api_call, research_id, subreddit,
                    style_template, post_content, post, start_time, files,
                    result, calls, submitted, worthy >>

\* line 346: the sleep that ends a pass
EndPass ==
    /\ pc = "comments"
    /\ todo = << >>
    /\ now' = now + check_interval
    /\ pc' = "loop"
    /\ UNCHANGED << variant, last_api_call, research_id, subreddit,
                    style_template, post_content, data, post, start_time,
                    generated_replies, files, result, calls, submitted, todo,
                    mon, worthy, llm >>

\* mutant: the handler of line 348 breaks out of the loop after its sleep
AfterPassError_Break == "save"

\* lines 348-350: where the handler of a pass's exception leaves the loop
AfterPassError == "loop"

\* lines 348-350: an exception of the pass is printed, then the same sleep
ExceptSleep ==
    /\ pc = "except"
    /\ now' = now + check_interval
    /\ pc' = AfterPassError
    /\ mon' = [mon EXCEPT !.exc = "none"]
    /\ UNCHANGED << variant, last_api_call, research_id, subreddit,
                    style_template, post_content, data, post, start_time,
                    generated_replies, files, result, calls, submitted, todo,
                    worthy, llm >>

\* lines 353-358: save the record, return the research id
SaveResearch ==
    /\ pc = "save"
    /\ files' = save_research(files, data, research_file(research_id))
    /\ result' = research_id
    /\ pc' = "done"
    /\ UNCHANGED << variant, now, last_api_call, research_id, subreddit,
                    style_template, post_content, data, post, start_time,
                    generated_replies, calls, submitted, todo, mon, worthy, llm >>

\* run_research at line 292 for the first time: the post p1 is submitted,
\* the research record holds its snapshot, lines 289-290 have run.  (Under
\* Spec, SubmitPost does not get here: update_post raises at line 278.)
MonitorInit ==
    /\ InitCommon
    /\ pc = "loop"
    /\ subreddit = subreddit_name
    /\ research_id \in {<< "research_", now >>, << "r1" >>}
    /\ data = [initialize_research(research_id, research_prompt,
                                   subreddit_name, << >>)
                 EXCEPT !.post = ActiveSnapshot("p1", << >>, now)]
    /\ post = NewPost("p1")
    /\ start_time = now
    /\ generated_replies = {}

MonitorNext ==
    \/ LoopTest
    \/ Refresh
    \/ ExpandComments
    \/ ProcessComment
    \/ EndPass
    \/ ExceptSleep
    \/ SaveResearch

SpecMonitor == MonitorInit /\ [][MonitorNext]_vars

\* every external call returns and every sleep ends: run_research always
\* takes its next step
SpecMonitorFair == SpecMonitor /\ WF_vars(MonitorNext)

(***************************************************************************)
(* should_reply on its own, for scores drawn from a bounded range          *)
(***************************************************************************)
ScoreRange == -1..MaxScore
PostScoreRange == -1..(20 * MaxScore + 1)

WorthyInit ==
    /\ variant \in Variants
    /\ pc = "should_reply"
    /\ now \in StartTimes
    /\ last_api_call = 0
    /\ research_id = << "r1" >>
    /\ subreddit = subreddit_name
    /\ style_template = << >>
    /\ post_content = << >>
    /\ data = initialize_research(research_id, research_prompt,
                                  subreddit_name, << >>)
    /\ post = NewPost("p1")
    /\ start_time = now
    /\ generated_replies = {}
    /\ files = << >>
    /\ result = Unset
    /\ calls = << >>
    /\ submitted = << >>
    /\ todo = << >>
    /\ mon = NoHistory
    /\ llm = << >>
    /\ worthy \in [score : ScoreRange, post_score : PostScoreRange,
                   called : {FALSE}, answer : {FALSE}]

\* lines 164-169: one call of should_reply(comment, post_score)
ShouldReply ==
    /\ pc = "should_reply"
    /\ ~worthy.called
    /\ worthy' = [worthy EXCEPT
                    !.called = TRUE,
                    !.answer = should_reply(worthy.score, worthy.post_score)]
    /\ UNCHANGED << variant, pc, now, last_api_call, research_id, subreddit,
                    style_template, post_content, data, post, start_time,
                    generated_replies, files, result, calls, submitted, todo,
                    mon, llm >>

WorthyNext == ShouldReply

SpecWorthy == WorthyInit /\ [][WorthyNext]_vars

(***************************************************************************)
(* DataCollectionAgent on its own: update_post and save_research called    *)
(* with both parameters bound (research_id, then the dictionary), on the   *)
(* dictionaries run_research builds.  (run_research itself leaves          *)
(* research_id out of these calls, see update_post.)                       *)
(***************************************************************************)
RecordInit ==
    /\ variant \in Variants
    /\ pc = "record"
    /\ now \in StartTimes
    /\ last_api_call = 0
    /\ research_id \in {<< "research_", now >>, << "r1" >>}
    /\ subreddit = subreddit_name
    /\ style_template = << >>
    /\ post_content \in Texts
    /\ data = initialize_research(research_id, research_prompt,
                                  subreddit_name, style_template)
    /\ post = NoPost
    /\ start_time = 0
    /\ generated_replies = {}
    /\ files = << >>
    /\ result = Unset
    /\ calls = << >>
    /\ submitted = << >>
    /\ todo = << >>
    /\ mon = NoHistory
    /\ worthy = << >>
    /\ llm = << >>

\* update_post(research_id, {id, content, timestamp, 'active'}), lines 278-283
RecordPost ==
    /\ pc = "record"
    /\ data.post = EmptyDict
    /\ \E d \in CallDurations :
        /\ now' = now + d
        /\ data' = update_post(data,
                       << research_id,
                          ActiveSnapshot("p1", post_content, now + d) >>).data
    /\ UNCHANGED << variant, pc, last_api_call, research_id, subreddit,
                    style_template, post_content, post, start_time,
                    generated_replies, files, result, calls, submitted, todo,
                    mon, worthy, llm >>

\* update_post(research_id, {'status': 'removed', timestamp}), lines 299-302
RecordRemoval ==
    /\ pc = "record"
    /\ data.post # EmptyDict
    /\ data.post.status = "active"
    /\ \E d \in CallDurations :
        /\ now' = now + d
        /\ data' = update_post(data, << research_id, RemovalUpdate(now + d) >>).data
    /\ UNCHANGED << variant, pc, last_api_call, research_id, subreddit,
                    style_template, post_content, post, start_time,
                    generated_replies, files, result, calls, submitted, todo,
                    mon, worthy, llm >>

\* save_research(research_id, filepath), line 353
SaveRecord ==
    /\ pc = "record"
    /\ files' = save_research(files, data, research_file(research_id))
    /\ pc' = "saved"
    /\ UNCHANGED << variant, now, last_api_call, research_id, subreddit,
                    style_template, post_content, data, post, start_time,
                    generated_replies, result, calls, submitted, todo, mon,
                    worthy, llm >>

RecordNext ==
    \/ RecordPost
    \/ RecordRemoval
    \/ SaveRecord

SpecRecord == RecordInit /\ [][RecordNext]_vars

(***************************************************************************)
(* Properties                                                              *)
(***************************************************************************)
SubmitSucceeded == submitted # << >> /\ submitted[Len(submitted)].ok
SubmitFailed == submitted # << >> /\ ~submitted[Len(submitted)].ok
ResolutionFailed == pc # "start" /\ subreddit = None

\* No reply is ever posted and the dedup set stays empty: the first worthy
\* comment of a pass raises at line 314 (add_reply), before line 324.
NoReplyPosted == mon.replies = << >> /\ generated_replies = {}

\* C1: a run whose submit call succeeded returns the research id; it never
\* returns the failure signal after the post has been created.
C1_ReturnsIdOnceSubmitted ==
    (pc = "done" /\ SubmitSucceeded) => result = research_id

C5_NoSubredditNothingDone ==
    ResolutionFailed =>
        /\ pc = "done"
        /\ result = NoneId
        /\ submitted = << >>
        /\ \A i \in 1..Len(calls) : calls[i].op \notin {"submit", "reply"}
        /\ mon.replies = << >>
        /\ files = << >>

C5_Witness ==
    /\ ResolutionFailed
    /\ pc = "done"
    /\ result = NoneId
    /\ Len(calls) = 1

\* C6: when the submit call fails the run aborts: submit was called once,
\* the monitoring loop is not entered, no file is written and the failure
\* signal is returned.
C6_SubmitFailureAborts ==
    SubmitFailed =>
        /\ Len(submitted) = 1
        /\ pc = "done"
        /\ result = NoneId
        /\ mon.passes = 0
        /\ files = << >>

C6_Witness ==
    /\ SubmitFailed
    /\ pc = "done"
    /\ result = NoneId
    /\ data # NoData

\* C7: an exception raised in a polling pass is handled by the sleep of
\* check_interval, after which the loop goes on; the loop is left only when
\* the elapsed time has reached monitoring_duration or on removal detection.
C7_PassErrorKeepsLooping ==
    [][ /\ (mon'.exc # "none" /\ mon.exc = "none") => pc' = "except"
        /\ pc = "except" => (pc' = "loop" /\ now' = now + check_interval)
        /\ (pc' = "save" /\ pc # "save") =>
              (now - start_time >= monitoring_duration \/ mon'.shown)
        /\ pc' # "raised" ]_vars

C7_Witness ==
    /\ pc = "refresh"
    /\ mon.caught >= 2
    /\ mon.passes >= 2
    /\ now - start_time < monitoring_duration

\* C8: a run whose submit call succeeded writes the research record to
\* research_data_<research id>.json exactly once, after the loop has ended.
C8_SavedOnceAfterSubmit ==
    (pc = "done" /\ SubmitSucceeded) =>
        (Len(files) = 1 /\ files[1].path = research_file(research_id))

\* C9: should_reply(s, p) is true iff s > 5 and 20 * s > p; at the boundary
\* 20 * s = p it is false; the call changes nothing else.
C9_ShouldReplyThresholds ==
    (pc = "should_reply" /\ worthy.called) =>
        /\ worthy.answer <=> (worthy.score > 5 /\ 20 * worthy.score > worthy.post_score)
        /\ (20 * worthy.score = worthy.post_score) => ~worthy.answer
        /\ generated_replies = {}
        /\ data.replies = << >>
        /\ files = << >>

C9_Witness ==
    /\ pc = "should_reply"
    /\ worthy.called
    /\ worthy.score = 6
    /\ worthy.post_score = 120
    /\ ~worthy.answer

\* C10: every platform call is preceded by the rate-limit check, so two
\* consecutive platform calls are at least rate_limit_delay seconds apart.
C10_EveryCallRateLimited ==
    \A i \in 1..Len(calls) :
        /\ calls[i].limited
        /\ i > 1 => calls[i].at - calls[i - 1].at >= rate_limit_delay

\* ceil(monitoring_duration / check_interval)
MaxPasses == (monitoring_duration + check_interval - 1) \div check_interval

\* C11: when every external call returns, the monitoring loop terminates:
\* at most ceil(monitoring_duration / check_interval) = 6 passes are begun
\* and the run reaches done.
C11_LoopTerminates ==
    /\ [](mon.passes <= MaxPasses /\ MaxPasses = 6)
    /\ <>(pc = "done")

C11_Witness ==
    /\ pc = "done"
    /\ mon.passes = 6
    /\ mon.exit = "expired"
    /\ now - start_time = monitoring_duration

\* C12: a failed LLM call yields the empty string and is not raised further:
\* the run goes on with the empty style guide or the empty post text.
C12_LLMFailureYieldsEmpty ==
    \A i \in 1..Len(llm) :
        ~llm[i].ok =>
            /\ pc # "raised"
            /\ llm[i].use = "style" => style_template = << >>
            /\ llm[i].use = "post" => post_content = << >>

\* C13: the submitted title is the drafted text before its first line break
\* and the body everything after it: the title holds no line break, and
\* title + line break + body is the text when it holds a line break;
\* otherwise the title is the whole text and the body is empty.
C13_TitleBodySplit ==
    \A i \in 1..Len(submitted) :
        LET title == submitted[i].title
            body  == submitted[i].selftext
        IN  /\ \A j \in 1..Len(title) : title[j] # "\n"
            /\ IF \E j \in 1..Len(post_content) : post_content[j] = "\n"
               THEN title \o << "\n" >> \o body = post_content
               ELSE title = post_content /\ body = << >>

C13_Witness ==
    /\ submitted # << >>
    /\ post_content = << "T", "\n", "T" >>
    /\ submitted[1].title = << "T" >>
    /\ submitted[1].selftext = << "T" >>

\* C15: after a successful submit the research record holds the post
\* snapshot {id, content, timestamp, status 'active'} and the monitoring loop
\* is entered: at least one polling pass runs before the run ends.
C15_SnapshotThenMonitor ==
    (pc = "done" /\ SubmitSucceeded) =>
        /\ DOMAIN data.post = {"id", "content", "timestamp", "status"}
        /\ data.post.id = post.id
        /\ data.post.content = post_content
        /\ data.post.status = "active"
        /\ mon.passes >= 1

HumanSnapshots ==
    Cardinality({i \in 1..Len(data.replies) : ~data.replies[i].is_bot_generated})

SnapshotComplete(p) ==
    p # EmptyDict =>
        /\ DOMAIN p = {"id", "content", "timestamp", "status"}
        /\ p.status \in {"active", "removed"}

C22_VariantsEquivalent == [][\A v \in Variants : NextAs(v)]_vars

====
